---------------------------- MODULE Spec2Model ----------------------------
(***************************************************************************)
(* Model of the Huffman codec of src/main.cpp: getFreq,                    *)
(* generateHuffmanTree (std::priority_queue over a binary heap with the    *)
(* comparator Greater), generateHuffmanCodes, encode and decode.           *)
(*                                                                         *)
(* Characters are their ASCII codes; a std::string is a sequence of        *)
(* characters; position k of the C++ text (0-based) is element k+1 here.   *)
(* A std::map<char, T> is a function whose domain is the set of keys; the  *)
(* map is iterated in ascending key order.  All characters of the model    *)
(* are below 128, so the signedness of char does not change any order.     *)
(***************************************************************************)
EXTENDS Integers, Sequences, FiniteSets

VARIABLES
    pc,          \* position of the program
    input,       \* encode: parameter text
    encFreq,     \* encode: local freq
    encRoot,     \* encode: local root
    encCode,     \* encode: local huffmanCode
    encoded,     \* encode: returned string
    file,        \* decode: parameter text
    damaged,     \* kind of damage done to the file between encode and decode
    freq,        \* decode: local freq / generateHuffmanTree: parameter freq
    i,           \* decode: local i
    root,        \* decode: local root / generateHuffmanTree: returned root
    huffmanCode, \* decode: local huffmanCode / generateHuffmanCodes: result
    decoded,     \* decode: local decode, the returned string
    noDigits,    \* history: strtoull found no digits in some frequency line
    noSpace,     \* history: a frequency line without whitespace after its symbol
    oob,         \* history: text[k] was read with k > text.size()
    emptyTop,    \* history: pq.top() was called on an empty priority queue
    pq,          \* generateHuffmanTree: the vector under the priority queue
    todo,        \* generateHuffmanTree: keys of freq not pushed yet
    merges,      \* generateHuffmanTree: iterations of the merge loop so far
    left,        \* generateHuffmanTree: local left of the last iteration
    right,       \* generateHuffmanTree: local right of the last iteration
    rest         \* history: the queue between the second pop and the push

vars == <<pc, input, encFreq, encRoot, encCode, encoded, file, damaged, freq,
          i, root, huffmanCode, decoded, noDigits, noSpace, oob, emptyTop,
          pq, todo, merges, left, right, rest>>

codecVars == <<input, encFreq, encRoot, encCode, encoded, file, damaged, i,
               decoded, noDigits, noSpace, oob, emptyTop>>

treeVars == <<pq, todo, merges, left, right, rest>>

-----------------------------------------------------------------------------
(* Bounds of the model *)

\* longest input text of the round-trip specification
MaxLen == 4

\* longest run of one symbol in the long inputs (counts of two digits)
MaxRun == 11

\* longest input text of the specification with a damaged file
MaxDamagedLen == 3

\* largest count of a frequency table of the tree specification
MaxCount == 3

-----------------------------------------------------------------------------
(* Characters *)

\* '\0', the value of an internal node
NUL == 0

\* '\n'
LF == 10

\* ' '
SP == 32

\* '0', the first decimal digit
Ch0 == 48

\* 'e'
ChE == 101

\* 'h'
ChH == 104

\* 't'
ChT == 116

\* the sentinel "het" and the sentinel line "het\n"
Het == <<ChH, ChE, ChT>>

HetLine == <<ChH, ChE, ChT, LF>>

\* std::isspace in the "C" locale: \t \n \v \f \r and the space
IsSpace(c) == c \in (9..13) \cup {SP}

IsDigit(c) == c \in Ch0..(Ch0 + 9)

\* symbols of the input texts of the round-trip specification:
\* '\0' '\n' ' ' '1' 'a' 'e' 'h'
Symbols == {NUL, LF, SP, Ch0 + 1, 97, ChE, ChH}

\* symbols of the input texts of the specification with a damaged file: a b c
DamageSymbols == {97, 98, 99}

\* characters a damaged file may hold in place of an original one: 'x' ' ' '\n' '0' 'h'
DamageChars == {120, SP, LF, Ch0, ChH}

\* what a read past the end of the text may find: '\0' ' ' 'h' 'x'
Garbage == {NUL, SP, ChH, 120}

\* symbols of the frequency tables of the tree specification: '\0' a b c d
TreeSymbols == {NUL, 97, 98, 99, 100}

-----------------------------------------------------------------------------
(* Helpers on sets, strings and maps *)

SetMin(S) == CHOOSE x \in S : \A y \in S : x <= y

BoundedSeq(S, n) == UNION {[1..k -> S] : k \in 0..n}

Rep(c, n) == [k \in 1..n |-> c]

Range(s) == {s[k] : k \in 1..Len(s)}

EmptyMap == [c \in {} |-> 0]

MapPut(m, k, v) == [c \in DOMAIN m \cup {k} |-> IF c = k THEN v ELSE m[c]]

IsPrefix(a, b) == Len(a) <= Len(b) /\ SubSeq(b, 1, Len(a)) = a

\* text.substr(pos, n) for pos <= text.size()
Substr(t, pos, n) ==
    SubSeq(t, pos + 1, IF pos + n > Len(t) THEN Len(t) ELSE pos + n)

-----------------------------------------------------------------------------
(* Huffman::Node and the priority queue *)

\* an empty Node::Ptr
NullPtr == [null |-> TRUE]

IsNull(p) == "null" \in DOMAIN p

\* new Node{ value, freq, nullptr, nullptr }
Leaf(v, f) == [value |-> v, freq |-> f, left |-> NullPtr, right |-> NullPtr]

\* new Node{ '\0', left->freq + right->freq, left, right }
Internal(l, r) ==
    [value |-> NUL, freq |-> l.freq + r.freq, left |-> l, right |-> r]

\* Greater with the frequencies compared the other way round
GreaterReversed(lhs, rhs) ==
    IF lhs.freq = rhs.freq THEN lhs.value >= rhs.value
                           ELSE lhs.freq < rhs.freq

\* Huffman::Greater::operator()
Greater(lhs, rhs) ==
    IF lhs.freq = rhs.freq THEN lhs.value >= rhs.value
                           ELSE lhs.freq > rhs.freq

RECURSIVE SiftUp(_, _, _, _)
\* std::__push_heap: move the hole at holeIndex (0-based) up while the parent
\* compares Greater than value, then store value in the hole
SiftUp(c, holeIndex, topIndex, value) ==
    LET parent == (holeIndex - 1) \div 2 IN
    IF holeIndex > topIndex /\ Greater(c[parent + 1], value)
    THEN SiftUp([c EXCEPT ![holeIndex + 1] = c[parent + 1]],
                parent, topIndex, value)
    ELSE [c EXCEPT ![holeIndex + 1] = value]

RECURSIVE SiftDown(_, _, _, _)
\* the while loop of std::__adjust_heap: move the hole down to the child that
\* does not compare Greater than its sibling
SiftDown(c, holeIndex, secondChild, len) ==
    IF secondChild < (len - 1) \div 2
    THEN LET sc == 2 * (secondChild + 1)
             ch == IF Greater(c[sc + 1], c[sc]) THEN sc - 1 ELSE sc
         IN  SiftDown([c EXCEPT ![holeIndex + 1] = c[ch + 1]], ch, ch, len)
    ELSE [c |-> c, hole |-> holeIndex, second |-> secondChild]

\* std::__adjust_heap
AdjustHeap(c, holeIndex, len, value) ==
    LET d == SiftDown(c, holeIndex, holeIndex, len)
        e == IF len % 2 = 0 /\ d.second = (len - 2) \div 2
             THEN LET sc == 2 * (d.second + 1)
                  IN  [c |-> [d.c EXCEPT ![d.hole + 1] = d.c[sc]],
                       hole |-> sc - 1]
             ELSE [c |-> d.c, hole |-> d.hole]
    IN  SiftUp(e.c, e.hole, holeIndex, value)

\* PriorityQueue::push: c.push_back(x); std::push_heap(c.begin(), c.end(), comp)
PQPush(c, x) == SiftUp(Append(c, x), Len(c), 0, x)

\* PriorityQueue::pop: std::pop_heap(c.begin(), c.end(), comp); c.pop_back()
PQPop(c) ==
    IF Len(c) > 1
    THEN LET last == Len(c) - 1
             moved == [c EXCEPT ![last + 1] = c[1]]
         IN  SubSeq(AdjustHeap(moved, 0, last, c[last + 1]), 1, last)
    ELSE <<>>

\* PriorityQueue::top on a non-empty queue
PQTop(c) == c[1]

-----------------------------------------------------------------------------
(* Huffman::generateHuffmanTree *)

RECURSIVE PushLeaves(_, _, _)
\* for (const auto& f : freq) pq.push(new Node{ f.first, f.second, ... })
PushLeaves(f, keys, c) ==
    IF keys = {} THEN c
    ELSE LET k == SetMin(keys)
         IN  PushLeaves(f, keys \ {k}, PQPush(c, Leaf(k, f[k])))

\* one iteration of while (pq.size() > 1)
MergeOnce(c) ==
    LET l  == PQTop(c)
        c1 == PQPop(c)
        r  == PQTop(c1)
        c2 == PQPop(c1)
    IN  [left |-> l, right |-> r, rest |-> c2,
         pq |-> PQPush(c2, Internal(l, r))]

RECURSIVE MergeAll(_)
MergeAll(c) == IF Len(c) > 1 THEN MergeAll(MergeOnce(c).pq) ELSE c

\* the priority queue of generateHuffmanTree when its loop has ended; the
\* function returns pq.top()
HuffmanQueue(f) == MergeAll(PushLeaves(f, DOMAIN f, <<>>))

-----------------------------------------------------------------------------
(* Huffman::generateHuffmanCodes *)

RECURSIVE GenerateHuffmanCodesImplSameBit(_, _, _)
\* generateHuffmanCodesImpl appending '0' on the way to the right child too
GenerateHuffmanCodesImplSameBit(r, repr, code) ==
    IF IsNull(r) THEN code
    ELSE LET c0 == IF IsNull(r.left) /\ IsNull(r.right)
                   THEN MapPut(code, r.value, repr)
                   ELSE code
             c1 == GenerateHuffmanCodesImplSameBit(r.left, Append(repr, Ch0), c0)
         IN  GenerateHuffmanCodesImplSameBit(r.right, Append(repr, Ch0), c1)

RECURSIVE GenerateHuffmanCodesImpl(_, _, _)
GenerateHuffmanCodesImpl(r, repr, code) ==
    IF IsNull(r) THEN code
    ELSE LET c0 == IF IsNull(r.left) /\ IsNull(r.right)
                   THEN MapPut(code, r.value, repr)
                   ELSE code
             c1 == GenerateHuffmanCodesImpl(r.left, Append(repr, Ch0), c0)
         IN  GenerateHuffmanCodesImpl(r.right, Append(repr, Ch0 + 1), c1)

GenerateHuffmanCodes(r) == GenerateHuffmanCodesImpl(r, <<>>, EmptyMap)

-----------------------------------------------------------------------------
(* Huffman::getFreq and Huffman::encode *)

\* getFreq that records each symbol once and never counts it again
GetFreqNoCount(t) == [c \in Range(t) |-> 1]

RECURSIVE GetFreq(_)
\* for (const auto& c : text) ++freq[c]
GetFreq(t) ==
    IF t = <<>> THEN EmptyMap
    ELSE LET f == GetFreq(SubSeq(t, 1, Len(t) - 1))
             c == t[Len(t)]
         IN  MapPut(f, c, IF c \in DOMAIN f THEN f[c] + 1 ELSE 1)

RECURSIVE to_string(_)
\* std::to_string of a std::size_t
to_string(n) ==
    IF n < 10 THEN <<Ch0 + n>>
    ELSE Append(to_string(n \div 10), Ch0 + (n % 10))

RECURSIVE HeaderLines(_, _)
\* for (const auto& f : freq)
\*     encoded += f.first + std::string(" ") + std::to_string(f.second) + '\n'
HeaderLines(f, keys) ==
    IF keys = {} THEN <<>>
    ELSE LET k == SetMin(keys)
         IN  <<k, SP>> \o to_string(f[k]) \o <<LF>> \o HeaderLines(f, keys \ {k})

RECURSIVE EncodeBody(_, _)
\* for (const auto& c : text) encoded += huffmanCode[c]; operator[] of the
\* map yields an empty string for a key it does not hold
EncodeBody(t, code) ==
    IF t = <<>> THEN <<>>
    ELSE (IF Head(t) \in DOMAIN code THEN code[Head(t)] ELSE <<>>)
         \o EncodeBody(Tail(t), code)

\* the string encode builds from its locals
EncodeText(t, f, code) ==
    HetLine \o HeaderLines(f, DOMAIN f) \o HetLine \o EncodeBody(t, code)

\* the program stopped by a fault
Crashed == [crash |-> TRUE]

\* what pq.top() at the end of generateHuffmanTree yields: the root, or, on
\* an empty queue (undefined behaviour: front() of an empty vector), a fault
\* or an empty pointer
TopOutcomes(c) == IF c = <<>> THEN {Crashed, NullPtr} ELSE {PQTop(c)}

-----------------------------------------------------------------------------
(* Huffman::decode *)

\* the character of a C string at position k (0-based), k <= size
CStr(t, k) == IF k < Len(t) THEN t[k + 1] ELSE NUL

\* what text[k] reads: the character, '\0' at k = size(), and whatever lies
\* behind the buffer for k > size() (undefined behaviour)
TextAt(t, k) ==
    IF k < Len(t) THEN {t[k + 1]}
    ELSE IF k = Len(t) THEN {NUL}
    ELSE Garbage

RECURSIVE SkipSpaces(_, _)
SkipSpaces(t, k) == IF IsSpace(CStr(t, k)) THEN SkipSpaces(t, k + 1) ELSE k

RECURSIVE ReadDigits(_, _, _)
ReadDigits(t, k, acc) ==
    IF IsDigit(CStr(t, k))
    THEN ReadDigits(t, k + 1, acc * 10 + (CStr(t, k) - Ch0))
    ELSE [val |-> acc, end |-> k]

\* strtoull that stops behind the first digit
StrToULLOneDigit(t, start) ==
    LET k == SkipSpaces(t, start)
    IN  IF IsDigit(CStr(t, k)) THEN [val |-> CStr(t, k) - Ch0, end |-> k + 1]
        ELSE [val |-> 0, end |-> start]

\* std::strtoull(text.data() + start, &e, 10): skips white space, reads the
\* decimal digits, and sets e behind the last digit; without any digit the
\* value is 0 and e is the start.  The texts of the model hold no sign and
\* no number of 2^64 or more.
StrToULL(t, start) ==
    LET k == SkipSpaces(t, start)
    IN  IF IsDigit(CStr(t, k)) THEN ReadDigits(t, k, 0)
        ELSE [val |-> 0, end |-> start]

\* reversedHuffmanCode: for (const auto& c : huffmanCode)
\*     reversedHuffmanCode[c.second] = c.first; the last key wins
Reversed(code) ==
    [w \in {code[a] : a \in DOMAIN code} |->
        CHOOSE a \in DOMAIN code :
            /\ code[a] = w
            /\ \A b \in DOMAIN code : code[b] = w => b <= a]

\* the inner while loop: the first j in i+1 .. size with text.substr(i, j-i)
\* a key of reversedHuffmanCode, and size+1 when there is none
FirstMatch(t, from, rev) ==
    LET J == {j \in (from + 1)..Len(t) : Substr(t, from, j - from) \in DOMAIN rev}
    IN  IF J = {} THEN Len(t) + 1 ELSE SetMin(J)

-----------------------------------------------------------------------------
(* The tree builder, one step of generateHuffmanTree at a time *)

\* the frequency tables: the counts getFreq produces are at least 1, a count
\* of 0 is what decode reads from a header line without digits
FreqTables ==
    UNION {[D -> 0..MaxCount] : D \in (SUBSET TreeSymbols) \ {{}}}

CodecIdle ==
    /\ input = <<>> /\ encFreq = EmptyMap /\ encRoot = NullPtr
    /\ encCode = EmptyMap /\ encoded = <<>> /\ file = <<>>
    /\ damaged = "none" /\ i = 0 /\ decoded = <<>>
    /\ noDigits = FALSE /\ noSpace = FALSE /\ oob = FALSE /\ emptyTop = FALSE

TreeIdle ==
    /\ pq = <<>> /\ todo = {} /\ merges = 0
    /\ left = NullPtr /\ right = NullPtr /\ rest = <<>>

InitTree ==
    /\ pc = "push"
    /\ freq \in FreqTables
    /\ todo = DOMAIN freq
    /\ pq = <<>> /\ merges = 0
    /\ left = NullPtr /\ right = NullPtr /\ rest = <<>>
    /\ root = NullPtr /\ huffmanCode = EmptyMap
    /\ CodecIdle

\* one iteration of the loop that fills the queue
PushLeaf ==
    /\ pc = "push"
    /\ todo # {}
    /\ LET k == SetMin(todo) IN
        /\ pq' = PQPush(pq, Leaf(k, freq[k]))
        /\ todo' = todo \ {k}
    /\ pc' = IF todo' = {} THEN "merge" ELSE "push"
    /\ UNCHANGED <<freq, root, huffmanCode, merges, left, right, rest>>
    /\ UNCHANGED codecVars

\* one iteration of while (pq.size() > 1)
MergeStep ==
    /\ pc = "merge"
    /\ Len(pq) > 1
    /\ LET m == MergeOnce(pq) IN
        /\ left' = m.left
        /\ right' = m.right
        /\ rest' = m.rest
        /\ pq' = m.pq
    /\ merges' = merges + 1
    /\ UNCHANGED <<pc, freq, root, huffmanCode, todo>>
    /\ UNCHANGED codecVars

\* return pq.top()
TreeReturn ==
    /\ pc = "merge"
    /\ Len(pq) = 1
    /\ root' = PQTop(pq)
    /\ pc' = "codes"
    /\ UNCHANGED <<freq, huffmanCode>>
    /\ UNCHANGED treeVars
    /\ UNCHANGED codecVars

\* generateHuffmanCodes(root)
CodesStep ==
    /\ pc = "codes"
    /\ huffmanCode' = GenerateHuffmanCodes(root)
    /\ pc' = "treeDone"
    /\ UNCHANGED <<freq, root>>
    /\ UNCHANGED treeVars
    /\ UNCHANGED codecVars

NextTree == PushLeaf \/ MergeStep \/ TreeReturn \/ CodesStep

SpecTree == InitTree /\ [][NextTree]_vars

-----------------------------------------------------------------------------
(* The codec: main() encodes a text, and decodes the file that results *)

\* texts with a run long enough for a count of two digits
LongInputs ==
    {Rep(97, n) \o t : n \in 10..MaxRun, t \in BoundedSeq({97, Ch0 + 1}, 1)}

Inputs == BoundedSeq(Symbols, MaxLen) \cup LongInputs

\* the texts whose encoding gets damaged; encode returns for each of them
DamagedInputs == BoundedSeq(DamageSymbols, MaxDamagedLen) \ {<<>>}

NoDamage == [kind |-> "none", p |-> 0, q |-> 0]

InitCodec(texts) ==
    /\ pc = "encode"
    /\ input \in texts
    /\ encFreq = EmptyMap /\ encRoot = NullPtr /\ encCode = EmptyMap
    /\ encoded = <<>> /\ file = <<>> /\ damaged = NoDamage
    /\ freq = EmptyMap /\ i = 0 /\ root = NullPtr /\ huffmanCode = EmptyMap
    /\ decoded = <<>>
    /\ noDigits = FALSE /\ noSpace = FALSE /\ oob = FALSE /\ emptyTop = FALSE
    /\ TreeIdle

Init == InitCodec(Inputs)

InitDamaged == InitCodec(DamagedInputs)

\* Huffman::encode(input); its result is written to the file
Encode ==
    /\ pc = "encode"
    /\ LET f == GetFreq(input)
           q == HuffmanQueue(f)
       IN  /\ encFreq' = f
           /\ emptyTop' = (q = <<>>)
           /\ \E r \in TopOutcomes(q) :
                IF r = Crashed
                THEN /\ pc' = "encodeFault"
                     /\ UNCHANGED <<encRoot, encCode, encoded, file>>
                ELSE /\ pc' = "decode"
                     /\ encRoot' = r
                     /\ encCode' = GenerateHuffmanCodes(r)
                     /\ encoded' = EncodeText(input, f, encCode')
                     /\ file' = encoded'
    /\ UNCHANGED <<input, damaged, freq, i, root, huffmanCode, decoded,
                   noDigits, noSpace, oob>>
    /\ UNCHANGED treeVars

\* decode, lines 90-95: the opening sentinel
DecodeOpen ==
    /\ pc = "decode"
    /\ IF Substr(file, 0, 3) # Het \/ ~IsSpace(CStr(file, 3))
       THEN pc' = "error" /\ i' = i
       ELSE pc' = "header" /\ i' = 4
    /\ freq' = EmptyMap
    /\ UNCHANGED <<input, encFreq, encRoot, encCode, encoded, file, damaged,
                   root, huffmanCode, decoded, noDigits, noSpace, oob,
                   emptyTop>>
    /\ UNCHANGED treeVars

\* decode, lines 96-117: one iteration of while (true)
DecodeLine ==
    /\ pc = "header"
    /\ \E c \in TextAt(file, i), sep \in TextAt(file, i + 1) :
        IF c = ChH /\ i + 2 < Len(file) /\ file[i + 2] = ChE /\ file[i + 3] = ChT
        THEN /\ i' = i + 4
             /\ pc' = "build"
             /\ oob' = (oob \/ i > Len(file))
             /\ UNCHANGED <<freq, noDigits, noSpace>>
        ELSE IF ~IsSpace(sep)
        THEN /\ pc' = "error"
             /\ noSpace' = (noSpace \/ i < Len(file))
             /\ oob' = (oob \/ i + 1 > Len(file))
             /\ UNCHANGED <<freq, i, noDigits>>
        ELSE IF i + 2 >= Len(file)
        THEN /\ pc' = "error"
             /\ oob' = (oob \/ i + 1 > Len(file))
             /\ UNCHANGED <<freq, i, noDigits, noSpace>>
        ELSE LET r == StrToULL(file, i + 2)
             IN  /\ freq' = MapPut(freq, c, r.val)
                 /\ i' = r.end + 1
                 /\ noDigits' = (noDigits \/ r.end = i + 2)
                 /\ pc' = "header"
                 /\ oob' = (oob \/ i + 1 > Len(file))
                 /\ UNCHANGED noSpace
    /\ UNCHANGED <<input, encFreq, encRoot, encCode, encoded, file, damaged,
                   root, huffmanCode, decoded, emptyTop>>
    /\ UNCHANGED treeVars

\* decode, lines 119-128: the tree and the code table of the header
DecodeBuild ==
    /\ pc = "build"
    /\ LET q == HuffmanQueue(freq)
       IN  /\ emptyTop' = (emptyTop \/ q = <<>>)
           /\ \E r \in TopOutcomes(q) :
                IF r = Crashed
                THEN /\ pc' = "decodeFault"
                     /\ UNCHANGED <<root, huffmanCode>>
                ELSE /\ pc' = "body"
                     /\ root' = r
                     /\ huffmanCode' = GenerateHuffmanCodes(r)
    /\ UNCHANGED <<input, encFreq, encRoot, encCode, encoded, file, damaged,
                   freq, i, decoded, noDigits, noSpace, oob>>
    /\ UNCHANGED treeVars

\* decode, lines 129-145: one iteration of while (i < text.size())
DecodeSymbol ==
    /\ pc = "body"
    /\ i < Len(file)
    /\ LET rev == Reversed(huffmanCode)
           j == FirstMatch(file, i, rev)
       IN  /\ decoded' = IF j <= Len(file)
                         THEN Append(decoded, rev[Substr(file, i, j - i)])
                         ELSE decoded
           /\ i' = j
    /\ UNCHANGED <<pc, input, encFreq, encRoot, encCode, encoded, file,
                   damaged, freq, root, huffmanCode, noDigits, noSpace, oob,
                   emptyTop>>
    /\ UNCHANGED treeVars

\* decode, line 147: return decode
DecodeReturn ==
    /\ pc = "body"
    /\ i >= Len(file)
    /\ pc' = "done"
    /\ UNCHANGED <<input, encFreq, encRoot, encCode, encoded, file, damaged,
                   freq, i, root, huffmanCode, decoded, noDigits, noSpace,
                   oob, emptyTop>>
    /\ UNCHANGED treeVars

Next ==
    \/ Encode
    \/ DecodeOpen
    \/ DecodeLine
    \/ DecodeBuild
    \/ DecodeSymbol
    \/ DecodeReturn

Spec == Init /\ [][Next]_vars

-----------------------------------------------------------------------------
(* The file of main() is damaged between the two runs: characters p .. q-1  *)
(* are cut out, or the character at p is replaced                           *)

Edits(t) ==
    {[kind |-> "cut", p |-> p, q |-> q] :
        p \in 0..(Len(t) - 1), q \in 1..Len(t)}
    \cup {[kind |-> "put", p |-> p, q |-> ch] :
        p \in 0..(Len(t) - 1), ch \in DamageChars}

ApplyEdit(t, e) ==
    IF e.kind = "cut"
    THEN SubSeq(t, 1, e.p) \o SubSeq(t, e.q + 1, Len(t))
    ELSE [t EXCEPT ![e.p + 1] = e.q]

Damage ==
    /\ pc = "decode"
    /\ damaged = NoDamage
    /\ \E e \in Edits(file) :
        /\ e.kind = "cut" => e.p < e.q
        /\ e.kind = "put" => file[e.p + 1] # e.q
        /\ damaged' = e
        /\ file' = ApplyEdit(file, e)
    /\ UNCHANGED <<pc, input, encFreq, encRoot, encCode, encoded, freq, i,
                   root, huffmanCode, decoded, noDigits, noSpace, oob,
                   emptyTop>>
    /\ UNCHANGED treeVars

NextDamaged ==
    \/ Encode
    \/ Damage
    \/ DecodeOpen
    \/ DecodeLine
    \/ DecodeBuild
    \/ DecodeSymbol
    \/ DecodeReturn

SpecDamaged == InitDamaged /\ [][NextDamaged]_vars

-----------------------------------------------------------------------------
(* Properties of the tree builder and of the code table *)

RECURSIVE Leaves(_)
\* the symbols at the leaves of a tree, left to right
Leaves(n) ==
    IF IsNull(n) THEN <<>>
    ELSE IF IsNull(n.left) /\ IsNull(n.right) THEN <<n.value>>
    ELSE Leaves(n.left) \o Leaves(n.right)

RECURSIVE Internals(_)
\* the number of nodes of a tree that have a child
Internals(n) ==
    IF IsNull(n) THEN 0
    ELSE IF IsNull(n.left) /\ IsNull(n.right) THEN 0
    ELSE 1 + Internals(n.left) + Internals(n.right)

RECURSIVE SumCounts(_, _)
SumCounts(f, keys) ==
    IF keys = {} THEN 0
    ELSE LET k == SetMin(keys) IN f[k] + SumCounts(f, keys \ {k})

Occurrences(s, x) == Cardinality({k \in 1..Len(s) : s[k] = x})

IsPermutation(s, t) ==
    /\ Len(s) = Len(t)
    /\ \A k \in 1..Len(s) : Occurrences(s, s[k]) = Occurrences(t, s[k])

RECURSIVE ForestLeaves(_)
\* the symbols at the leaves of all the trees of a queue
ForestLeaves(c) ==
    IF c = <<>> THEN <<>> ELSE Leaves(Head(c)) \o ForestLeaves(Tail(c))

\* C3: when generateHuffmanCodes(generateHuffmanTree(freq)) has returned for
\* a non-empty frequency table, the code table has exactly the symbols of the
\* table as its keys, and no code is a prefix of the code of another symbol.
C3_PrefixFree ==
    pc = "treeDone" =>
        /\ DOMAIN huffmanCode = DOMAIN freq
        /\ \A a, b \in DOMAIN huffmanCode :
              a # b => ~IsPrefix(huffmanCode[a], huffmanCode[b])

\* a table of four symbols or more, '\0' among them, has got its codes
C3_Witness ==
    /\ pc = "treeDone"
    /\ Cardinality(DOMAIN freq) >= 4
    /\ NUL \in DOMAIN freq
    /\ \E a \in DOMAIN huffmanCode : Len(huffmanCode[a]) >= 3

\* C9: each iteration of the merge loop extracts two nodes, the first of a
\* frequency not above the second's, and no node left in the queue has a
\* smaller frequency than either; it pushes one new internal node with
\* left = first, right = second and the sum of their frequencies; no leaf is
\* lost or doubled on the way; the loop ends after N-1 merges with one node,
\* whose frequency is the sum of all counts and whose tree has N leaves and
\* N-1 internal nodes.
C9_GreedyMerge ==
    LET N == Cardinality(DOMAIN freq) IN
    /\ merges > 0 =>
        /\ left.freq <= right.freq
        /\ \A k \in 1..Len(rest) :
              rest[k].freq >= left.freq /\ rest[k].freq >= right.freq
        /\ IsPermutation(pq, Append(rest,
              [value |-> NUL, freq |-> left.freq + right.freq,
               left |-> left, right |-> right]))
    /\ pc \in {"push", "merge"} =>
        /\ Len(pq) + merges = N - Cardinality(todo)
        /\ Len(ForestLeaves(pq)) = N - Cardinality(todo)
        /\ Range(ForestLeaves(pq)) = DOMAIN freq \ todo
    /\ pc \in {"codes", "treeDone"} =>
        /\ merges = N - 1
        /\ Len(pq) = 1
        /\ root = pq[1]
        /\ root.freq = SumCounts(freq, DOMAIN freq)
        /\ Len(Leaves(root)) = N
        /\ Range(Leaves(root)) = DOMAIN freq
        /\ Internals(root) = N - 1

\* a table of four symbols with equal and unequal counts has been merged
C9_Witness ==
    /\ pc = "treeDone"
    /\ merges >= 3
    /\ \E a, b \in DOMAIN freq : a # b /\ freq[a] = freq[b]
    /\ \E a, b \in DOMAIN freq : freq[a] < freq[b]
    /\ left.freq < right.freq

-----------------------------------------------------------------------------
(* Properties of encode and decode *)

\* the length of the header encode wrote: both sentinel lines and the
\* frequency lines between them
HeaderLen == Len(HetLine) + Len(HeaderLines(encFreq, DOMAIN encFreq)) + Len(HetLine)

\* the bit stream encode wrote behind the header
BitStream == SubSeq(encoded, HeaderLen + 1, Len(encoded))

RECURSIVE CodesInOrder(_, _, _)
\* the codes of the symbols t[k], t[k+1], ... one after the other
CodesInOrder(t, k, code) ==
    IF k > Len(t) THEN <<>>
    ELSE code[t[k]] \o CodesInOrder(t, k + 1, code)

RECURSIVE WeightedLength(_, _, _)
\* the sum over the symbols of code length times frequency
WeightedLength(f, code, keys) ==
    IF keys = {} THEN 0
    ELSE LET k == SetMin(keys)
         IN  Len(code[k]) * f[k] + WeightedLength(f, code, keys \ {k})

\* C1: for every non-empty input S, decode(encode(S)) returns S.
C1_RoundTrip ==
    (pc = "done" /\ input # <<>>) => decoded = input

\* C2: for every input made of one symbol repeated n >= 1 times,
\* decode(encode(S)) returns S with all its n occurrences.
C2_SingleSymbol ==
    (pc = "done" /\ Cardinality(Range(input)) = 1) =>
        (Len(decoded) = Len(input) /\ Range(decoded) = Range(input))

\* C4: the counts of getFreq(S) sum to the length of S and its keys are the
\* distinct symbols of S; the bit stream encode(S) writes behind the closing
\* sentinel line is the codes of S's symbols in input order, and its length
\* is the sum over the symbols of code length times frequency.
C4_FrequencyConservation ==
    /\ pc # "encode" =>
        /\ SumCounts(encFreq, DOMAIN encFreq) = Len(input)
        /\ DOMAIN encFreq = Range(input)
    /\ pc \notin {"encode", "encodeFault"} =>
        /\ SubSeq(encoded, 1, HeaderLen) =
              HetLine \o HeaderLines(encFreq, DOMAIN encFreq) \o HetLine
        /\ Range(BitStream) \subseteq {Ch0, Ch0 + 1}
        /\ BitStream = CodesInOrder(input, 1, encCode)
        /\ Len(BitStream) = WeightedLength(encFreq, encCode, DOMAIN encFreq)

\* encode has returned for a text of three distinct symbols, one of them twice
C4_Witness ==
    /\ pc = "decode"
    /\ Cardinality(Range(input)) >= 3
    /\ \E c \in Range(input) : encFreq[c] >= 2
    /\ Len(BitStream) >= 5

\* C10: for every input S with at least two distinct symbols, decode parses
\* from encode(S) the frequency table encode used, without reading behind the
\* text, rebuilds the same tree and code table, starts at the first body bit,
\* decodes symbol by symbol the text so far, and returns exactly S.
C10_TwoSymbolsRoundTrip ==
    Cardinality(Range(input)) >= 2 =>
        /\ pc \notin {"error", "encodeFault", "decodeFault"}
        /\ ~oob /\ ~noDigits /\ ~noSpace /\ ~emptyTop
        /\ pc \in {"build", "body", "done"} =>
            /\ freq = GetFreq(input)
            /\ freq = encFreq
        /\ pc = "build" => i = HeaderLen
        /\ pc \in {"body", "done"} =>
            /\ root = encRoot
            /\ huffmanCode = encCode
            /\ IsPrefix(decoded, input)
            /\ i = HeaderLen + Len(CodesInOrder(decoded, 1, encCode))
        /\ pc = "done" => decoded = input

\* a text with 'h', '\0' and a third symbol has made the round trip
C10_Witness ==
    /\ pc = "done"
    /\ Len(input) >= 3
    /\ {ChH, NUL} \subseteq Range(input)
    /\ Cardinality(Range(input)) >= 3
    /\ decoded = input

\* a text with a count of two digits has made the round trip
C10_WitnessLong ==
    /\ pc = "done"
    /\ \E c \in DOMAIN freq : freq[c] >= 10
    /\ Cardinality(Range(input)) = 2
    /\ decoded = input

\* C8: encode on the empty input and decode on a header without a frequency
\* line behave in one defined way: neither calls pq.top() on an empty
\* priority queue, and neither ends in a fault.
C8_EmptyInputPolicy ==
    ~emptyTop /\ pc \notin {"encodeFault", "decodeFault"}

-----------------------------------------------------------------------------
(* Properties of decode on a damaged file *)

DecodeEnded == pc \in {"done", "error", "decodeFault"}

\* the text does not open with "het" and a white space
OpeningMissing(t) == Substr(t, 0, 3) # Het \/ ~IsSpace(CStr(t, 3))

\* the text holds no "het" behind the opening sentinel line
ClosingMissing(t) ==
    ~\E k \in 4..(Len(t) - 3) : Substr(t, k, 3) = Het

\* the header is flawed: opening sentinel, separator or closing sentinel
HeaderFlawed == OpeningMissing(file) \/ noSpace \/ ClosingMissing(file)

\* decode of a text with a flawed header throws and returns no text
FlawedHeaderThrows ==
    (DecodeEnded /\ HeaderFlawed) => (pc = "error" /\ decoded = <<>>)

\* decode never reads text[k] with k > text.size()
NoReadBehindText == ~oob

\* C5: with the opening sentinel missing or malformed, a frequency line
\* without the separator, or the closing sentinel missing, decode throws and
\* returns no text, and it never reads behind the end of the text while it
\* looks for the closing sentinel.
C5_HeaderParseContract == FlawedHeaderThrows /\ NoReadBehindText

\* the file is what encode wrote with the end of its bit stream cut off, and
\* the bits that are left are not the codes of a beginning of the input
CutMidCode ==
    /\ damaged.kind = "cut"
    /\ damaged.q = Len(encoded)
    /\ damaged.p >= HeaderLen
    /\ \A k \in 0..Len(input) :
          SubSeq(file, HeaderLen + 1, Len(file)) #
              CodesInOrder(SubSeq(input, 1, k), 1, encCode)

\* C6: decode of a text with a well-formed header whose bit stream ends in
\* the middle of a code fails with an error; it does not return the symbols
\* decoded so far.
C6_TruncatedStream ==
    (DecodeEnded /\ CutMidCode) => pc = "error"

\* C7: when a frequency line has no decimal digit where its count must be,
\* decode throws; it does not take the count as 0 and return.
C7_NonNumericCount ==
    (DecodeEnded /\ noDigits) => pc = "error"

=============================================================================
